---- MODULE Spec2Model ----
(***************************************************************************)
(* A model of the stock EDA pipeline of stock_eda.py: prompt_user,         *)
(* fetch_data, perform_eda (close-column resolution, aggregation, gap      *)
(* fill), save_cleaned_individuals, plot_prices and main; and of the       *)
(* fixed-ticker script scripts/fetch_and_eda.py: fetch_ticker and main.    *)
(*                                                                         *)
(* Text (str) is a sequence of one-character strings, so that strip,       *)
(* split, upper, lower and substring search are computed, not assumed.     *)
(* A cell of a table is a string: "NaN" for a missing value, otherwise     *)
(* the printed value.                                                      *)
(***************************************************************************)
EXTENDS Integers, Sequences, FiniteSets, TLC

VARIABLES
  program,      \* which program runs: stock_eda.py or scripts/fetch_and_eda.py
  pc,           \* where main is: the stage about to run, or how the run ended
  env,          \* what os.getenv("MCP_AUTOMATE") returns
  inp,          \* the line input() would return
  stdinRead,    \* whether input() has been called
  tickers,      \* prompt_user's result
  start,
  end,
  fetchIdx,     \* position of fetch_data's loop in tickers
  data,         \* fetch_data's dict: ticker -> DataFrame
  close_series,  \* perform_eda's dict: ticker -> resolved close Series
  close_df,      \* the aggregated close table
  cleaned,      \* the gap-filled close table
  saved,        \* the reconciled tables written by save_cleaned_individuals
  saveIdx,      \* position of save_cleaned_individuals' loop in data
  plotIdx,      \* position of plot_prices' loop in data
  files,        \* the artifacts written so far, in the order of the writes
  error,        \* the exception that ended the run, "none" if none
  exitStatus    \* the process exit status, -1 while the run goes on

vars == <<program, pc, env, inp, stdinRead, tickers, start, end, fetchIdx, data,
          close_series, close_df, cleaned, saved, saveIdx, plotIdx, files,
          error, exitStatus>>

(***************************************************************************)
(* Bounds of the model.                                                    *)
(***************************************************************************)
\* Longest input line tried on prompt_user.
MaxInputLen == 5

\* Most columns of a table given to the close-column resolution, and the
\* dates its rows are drawn from.
MaxCols == 2

MaxResolveDate == 1

\* Most rows of the close table given to the gap fill.
MaxFillDate == 3

\* Most tickers aggregated, and the dates of their rows.
MaxTickers == 2

MaxAggDate == 2

\* The dates of the rows of the tables reconciled.
MaxSaveDate == 3

\* The dates of the rows the provider returns in a whole run of main.
MaxRunDate == 1

(***************************************************************************)
(* Text helpers: Python's str methods on sequences of characters.          *)
(***************************************************************************)
\* The characters str.isspace() holds for, which str.strip() removes.  The
\* ones with no escape in a string are written by their code point and
\* stand for one character each.
Whitespace ==
  {" ", "\t", "\n", "\r", "\f", "U+000B", "U+001C", "U+001D", "U+001E",
   "U+001F", "U+0085", "U+00A0", "U+1680", "U+2000", "U+2001", "U+2002",
   "U+2003", "U+2004", "U+2005", "U+2006", "U+2007", "U+2008", "U+2009",
   "U+200A", "U+2028", "U+2029", "U+202F", "U+205F", "U+3000"}

UpperOf ==
  [c \in {"a", "b", "c", "d", "e", "f", "g", "h", "i", "j", "k", "l", "m",
          "n", "o", "p", "q", "r", "s", "t", "u", "v", "w", "x", "y", "z"} |->
     CASE c = "a" -> "A" [] c = "b" -> "B" [] c = "c" -> "C" [] c = "d" -> "D"
       [] c = "e" -> "E" [] c = "f" -> "F" [] c = "g" -> "G" [] c = "h" -> "H"
       [] c = "i" -> "I" [] c = "j" -> "J" [] c = "k" -> "K" [] c = "l" -> "L"
       [] c = "m" -> "M" [] c = "n" -> "N" [] c = "o" -> "O" [] c = "p" -> "P"
       [] c = "q" -> "Q" [] c = "r" -> "R" [] c = "s" -> "S" [] c = "t" -> "T"
       [] c = "u" -> "U" [] c = "v" -> "V" [] c = "w" -> "W" [] c = "x" -> "X"
       [] c = "y" -> "Y" [] c = "z" -> "Z"]

\* str.upper(): every lower-case letter becomes its capital, the rest stays.
Upper(s) ==
  [i \in 1..Len(s) |-> IF s[i] \in DOMAIN UpperOf THEN UpperOf[s[i]] ELSE s[i]]

\* str.lower(): every capital becomes its lower-case letter, the rest stays.
Lower(s) ==
  [i \in 1..Len(s) |->
     IF \E c \in DOMAIN UpperOf : UpperOf[c] = s[i]
       THEN CHOOSE c \in DOMAIN UpperOf : UpperOf[c] = s[i]
       ELSE s[i]]

RECURSIVE LStrip(_)
\* Drop leading whitespace.
LStrip(s) ==
  IF s # << >> /\ Head(s) \in Whitespace THEN LStrip(Tail(s)) ELSE s

RECURSIVE RStrip(_)
\* Drop trailing whitespace.
RStrip(s) ==
  IF s # << >> /\ s[Len(s)] \in Whitespace
    THEN RStrip(SubSeq(s, 1, Len(s) - 1))
    ELSE s

\* str.strip()
Strip(s) == RStrip(LStrip(s))

RECURSIVE Split(_, _)
\* str.split(sep) for a one-character separator: always at least one part.
Split(s, sep) ==
  IF \E i \in 1..Len(s) : s[i] = sep
    THEN LET k == CHOOSE i \in 1..Len(s) :
                     s[i] = sep /\ \A j \in 1..(i - 1) : s[j] # sep
         IN  <<SubSeq(s, 1, k - 1)>> \o Split(SubSeq(s, k + 1, Len(s)), sep)
    ELSE <<s>>

\* needle in haystack (substring test)
Contains(haystack, needle) ==
  \E i \in 0..(Len(haystack) - Len(needle)) :
    SubSeq(haystack, i + 1, i + Len(needle)) = needle

\* [f(x) for x in xs]
RECURSIVE MapStrip(_)
MapStrip(xs) ==
  IF xs = << >> THEN << >> ELSE <<Strip(Head(xs))>> \o MapStrip(Tail(xs))

(***************************************************************************)
(* Configuration defaults.                                                 *)
(***************************************************************************)
DEFAULT_TICKERS ==
  << <<"A", "A", "P", "L">>, <<"T", "S", "L", "A">>, <<"M", "S", "F", "T">> >>

DEFAULT_START == <<"2", "0", "2", "3", "-", "0", "1", "-", "0", "1">>

DEFAULT_END == <<"2", "0", "2", "4", "-", "0", "1", "-", "3", "1">>

(***************************************************************************)
(* prompt_user                                                             *)
(***************************************************************************)
\* What os.getenv("MCP_AUTOMATE") can return: None (unset), "" or "1".
EnvValues == {"None", "", "1"}

\* Python truth of os.getenv's result: None and "" are false.
Truthy(e) == e # "None" /\ e # ""

RECURSIVE ParseTickersNoUpper(_)
\* ParseTickers without the upper(): the tickers as typed
ParseTickersNoUpper(fields) ==
  IF fields = << >> THEN << >>
  ELSE LET t == Strip(Head(fields))
       IN  (IF t # << >> THEN <<t>> ELSE << >>)
             \o ParseTickersNoUpper(Tail(fields))

RECURSIVE ParseTickers(_)
\* [t.strip().upper() for t in fields if t.strip()]
ParseTickers(fields) ==
  IF fields = << >> THEN << >>
  ELSE LET t == Strip(Head(fields))
       IN  (IF t # << >> THEN <<Upper(t)>> ELSE << >>)
             \o ParseTickers(Tail(fields))

\* The configuration prompt_user returns for an environment value and an
\* input line, and whether it read the line.
prompt_user(e, line) ==
  IF Truthy(e)
    THEN [tickers |-> DEFAULT_TICKERS, start |-> DEFAULT_START,
          end |-> DEFAULT_END, read |-> FALSE]
    ELSE LET s == Strip(line)
         IN  IF s = << >>
               THEN [tickers |-> DEFAULT_TICKERS, start |-> DEFAULT_START,
                     end |-> DEFAULT_END, read |-> TRUE]
               ELSE LET parts == MapStrip(Split(s, ";"))
                        ts    == ParseTickers(Split(parts[1], ","))
                    IN  [tickers |-> IF ts = << >> THEN DEFAULT_TICKERS ELSE ts,
                         start   |-> IF Len(parts) > 1 /\ parts[2] # << >>
                                       THEN parts[2] ELSE DEFAULT_START,
                         end     |-> IF Len(parts) > 2 /\ parts[3] # << >>
                                       THEN parts[3] ELSE DEFAULT_END,
                         read    |-> TRUE]

(***************************************************************************)
(* Tables.  A DataFrame is its row index (dates, ascending and unique as   *)
(* the provider returns them) and its columns in column order; a column    *)
(* has a name, a dtype (numeric or object) and one cell per row.  A        *)
(* Series is an index, a dtype and one cell per row.  A dict is the        *)
(* sequence of its items in insertion order.                               *)
(***************************************************************************)
NaN == "NaN"

Cells == {NaN, "1.0", "2.0"}

COL_CLOSE == <<"C", "l", "o", "s", "e">>

COL_ADJ_CLOSE == <<"A", "d", "j", " ", "C", "l", "o", "s", "e">>

COL_CLOSE_CAPS == <<"C", "L", "O", "S", "E">>

COL_OPEN == <<"O", "p", "e", "n">>

COL_NOTE == <<"N", "o", "t", "e">>

SUBSTR_CLOSE == <<"c", "l", "o", "s", "e">>

RECURSIVE SortedSeq(_)
\* The elements of a finite set of integers in ascending order.
SortedSeq(S) ==
  IF S = {} THEN << >>
  ELSE LET m == CHOOSE x \in S : \A y \in S : x <= y
       IN  <<m>> \o SortedSeq(S \ {m})

Range(f) == {f[i] : i \in DOMAIN f}

\* df.columns as the sequence of the column names
ColumnNames(df) == [i \in 1..Len(df.columns) |-> df.columns[i].name]

\* "name" in df.columns
HasColumn(df, name) == \E i \in 1..Len(df.columns) : df.columns[i].name = name

\* The first position of a sequence of booleans that is true; 0 if none is.
FirstTrue(bs) ==
  IF \E i \in 1..Len(bs) : bs[i]
    THEN CHOOSE i \in 1..Len(bs) : bs[i] /\ \A j \in 1..(i - 1) : ~bs[j]
    ELSE 0

\* df[col] as a Series
ColumnSeries(df, i) ==
  [index |-> df.index, numeric |-> df.columns[i].numeric,
   vals |-> df.columns[i].vals]

\* pd.Series(index=df.index, dtype="float64"): every entry missing
EmptySeries(df) ==
  [index |-> df.index, numeric |-> TRUE,
   vals |-> [i \in 1..Len(df.index) |-> NaN]]

\* The position of the column named "Close"; 0 if there is none.
FirstNamedClose(df) ==
  FirstTrue([i \in 1..Len(df.columns) |-> df.columns[i].name = COL_CLOSE])

\* "close" in str(col).lower()
IsCloseLike(name) == Contains(Lower(name), SUBSTR_CLOSE)

\* The position of the first column whose name contains "close", any case.
FirstCloseLike(df) ==
  FirstTrue([i \in 1..Len(df.columns) |-> IsCloseLike(df.columns[i].name)])

\* The position in df of the first column of select_dtypes(include=["number"]).
FirstNumeric(df) ==
  FirstTrue([i \in 1..Len(df.columns) |-> df.columns[i].numeric])

\* ResolveBranch with the name search tried before the exact name
ResolveBranchFuzzyFirst(df) ==
  IF FirstCloseLike(df) # 0 THEN 2
  ELSE IF FirstNumeric(df) # 0 /\ Len(df.index) > 0 THEN 3
  ELSE 4

\* The branch of perform_eda's resolution a table takes: 1 the column
\* "Close", 2 the first column whose lower-cased name contains "close",
\* 3 the first numeric column, 4 the all-missing placeholder.
\* DataFrame.empty is true when either axis has length 0, so a table with
\* numeric columns and no rows takes branch 4.
ResolveBranch(df) ==
  IF HasColumn(df, COL_CLOSE) THEN 1
  ELSE IF FirstCloseLike(df) # 0 THEN 2
  ELSE IF FirstNumeric(df) # 0 /\ Len(df.index) > 0 THEN 3
  ELSE 4

\* close_series[t] for the table df of one ticker
ResolveClose(df) ==
  CASE ResolveBranch(df) = 1 -> ColumnSeries(df, FirstNamedClose(df))
    [] ResolveBranch(df) = 2 -> ColumnSeries(df, FirstCloseLike(df))
    [] ResolveBranch(df) = 3 -> ColumnSeries(df, FirstNumeric(df))
    [] OTHER -> EmptySeries(df)

(***************************************************************************)
(* dict helpers                                                            *)
(***************************************************************************)
Keys(d) == [i \in 1..Len(d) |-> d[i].k]

HasKey(d, key) == \E i \in 1..Len(d) : d[i].k = key

\* d[key] = val: an existing key keeps its place, a new one goes last
DictSet(d, key, val) ==
  IF HasKey(d, key)
    THEN [i \in 1..Len(d) |-> IF d[i].k = key THEN [k |-> key, v |-> val] ELSE d[i]]
    ELSE Append(d, [k |-> key, v |-> val])

\* close_series: the resolved series of every item of data, in its order
ResolveAll(d) == [i \in 1..Len(d) |-> [k |-> d[i].k, v |-> ResolveClose(d[i].v)]]

(***************************************************************************)
(* Aggregation                                                             *)
(***************************************************************************)
\* The value of a series at a date; missing when the date is not in its index
AtDate(s, date) ==
  IF \E j \in 1..Len(s.index) : s.index[j] = date
    THEN s.vals[CHOOSE j \in 1..Len(s.index) : s.index[j] = date]
    ELSE NaN

\* series realigned to a new index by date
Reindex(s, index) == [i \in 1..Len(index) |-> AtDate(s, index[i])]

\* The row index of pd.concat(axis=1): the common index when all are equal,
\* otherwise the sorted union (a DatetimeIndex is always sorted on an outer
\* join).
ConcatIndex(cs) ==
  IF \A i, j \in 1..Len(cs) : cs[i].v.index = cs[j].v.index
    THEN cs[1].v.index
    ELSE SortedSeq(UNION {Range(cs[i].v.index) : i \in 1..Len(cs)})

\* Concat that lines the series up row by row instead of date by date
ConcatByPosition(cs) ==
  [index |-> ConcatIndex(cs),
   columns |-> [i \in 1..Len(cs) |->
                  [name |-> cs[i].k, numeric |-> cs[i].v.numeric,
                   vals |-> [r \in 1..Len(ConcatIndex(cs)) |->
                               IF r <= Len(cs[i].v.vals)
                                 THEN cs[i].v.vals[r] ELSE NaN]]]]

\* pd.concat(close_series, axis=1): one column per key, in key order
Concat(cs) ==
  [index |-> ConcatIndex(cs),
   columns |-> [i \in 1..Len(cs) |->
                  [name |-> cs[i].k, numeric |-> cs[i].v.numeric,
                   vals |-> Reindex(cs[i].v, ConcatIndex(cs))]]]

\* single_series.to_frame(name=only_ticker)
ToFrame(s, name) ==
  [index |-> s.index,
   columns |-> <<[name |-> name, numeric |-> s.numeric, vals |-> s.vals]>>]

\* close_df of perform_eda
Aggregate(cs) ==
  IF Len(cs) = 1 THEN ToFrame(cs[1].v, cs[1].k) ELSE Concat(cs)

(***************************************************************************)
(* Gap fill                                                                *)
(***************************************************************************)
\* FFillVals that looks one row back only, in the unfilled column
FFillValsOneBack(vals) ==
  [i \in 1..Len(vals) |->
     IF vals[i] = NaN /\ i > 1 THEN vals[i - 1] ELSE vals[i]]

RECURSIVE FFillVals(_)
\* Forward fill of one column: a missing cell takes the filled value of the
\* row before it.
FFillVals(vals) ==
  IF Len(vals) <= 1 THEN vals
  ELSE LET before == FFillVals(SubSeq(vals, 1, Len(vals) - 1))
           last   == vals[Len(vals)]
       IN  Append(before, IF last = NaN THEN before[Len(before)] ELSE last)

RECURSIVE BFillVals(_)
\* Backward fill of one column: a missing cell takes the filled value of the
\* row after it.
BFillVals(vals) ==
  IF Len(vals) <= 1 THEN vals
  ELSE LET after == BFillVals(Tail(vals))
       IN  <<IF Head(vals) = NaN THEN Head(after) ELSE Head(vals)>> \o after

\* DataFrame.ffill(): every column forward filled, index and names kept
FFill(df) ==
  [index |-> df.index,
   columns |-> [i \in 1..Len(df.columns) |->
                  [df.columns[i] EXCEPT !.vals = FFillVals(df.columns[i].vals)]]]

\* DataFrame.bfill(): every column backward filled, index and names kept
BFill(df) ==
  [index |-> df.index,
   columns |-> [i \in 1..Len(df.columns) |->
                  [df.columns[i] EXCEPT !.vals = BFillVals(df.columns[i].vals)]]]

\* Clean with the two passes in the other order
CleanBackwardFirst(df) == FFill(BFill(df))

\* close_df.ffill().bfill()
Clean(df) == BFill(FFill(df))

(***************************************************************************)
(* save_cleaned_individuals                                                *)
(***************************************************************************)
\* cleaned_close[t] as a Series
CleanedColumn(cl, t) ==
  ColumnSeries(cl, CHOOSE i \in 1..Len(cl.columns) : cl.columns[i].name = t)

\* The row index of df_copy after df_copy["Close"] = value: a frame with no
\* rows that is assigned a series with rows takes the index of the series
\* (pandas' _ensure_valid_index); any other frame keeps its own.
SetItemIndex(df, value) ==
  IF df.index = << >> /\ value.index # << >> THEN value.index ELSE df.index

\* df_copy for one ticker: a copy of the original whose "Close" column, if
\* there is one, is assigned cleaned_close[t], aligned on the row index.
\* When the assignment gives the copy new rows, its other columns are
\* missing on them.
Reconcile(orig, cl, t) ==
  IF HasColumn(orig, COL_CLOSE)
    THEN LET index == SetItemIndex(orig, CleanedColumn(cl, t))
         IN  [index |-> index,
              columns |-> [i \in 1..Len(orig.columns) |->
                 IF orig.columns[i].name = COL_CLOSE
                   THEN [name |-> COL_CLOSE,
                         numeric |-> CleanedColumn(cl, t).numeric,
                         vals |-> Reindex(CleanedColumn(cl, t), index)]
                   ELSE [name |-> orig.columns[i].name,
                         numeric |-> orig.columns[i].numeric,
                         vals |-> Reindex(ColumnSeries(orig, i), index)]]]
    ELSE orig

(***************************************************************************)
(* The tables a provider can return, within the bounds.                    *)
(***************************************************************************)
\* Ascending, duplicate-free row indexes over the dates 1..n
Indexes(n) == {SortedSeq(S) : S \in SUBSET (1..n)}

RECURSIVE ColumnSets(_, _, _, _)
\* Every filling of the columns of a schema over len rows: the cells of a
\* "Close" column drawn from closeCells, of any other from otherCells
ColumnSets(schema, len, closeCells, otherCells) ==
  IF schema = << >> THEN {<< >>}
  ELSE {<<[name |-> schema[1].name, numeric |-> schema[1].numeric,
           vals |-> v]>> \o rest :
          v \in [1..len -> IF schema[1].name = COL_CLOSE
                              THEN closeCells ELSE otherCells],
          rest \in ColumnSets(Tail(schema), len, closeCells, otherCells)}

\* Every table with one of the schemas and rows dated in 1..n
TableSet(schemas, n, closeCells, otherCells) ==
  UNION {{[index |-> ix, columns |-> cols] :
            cols \in ColumnSets(sch, Len(ix), closeCells, otherCells)} :
           sch \in schemas, ix \in Indexes(n)}

ColumnKinds ==
  [name : {COL_CLOSE, COL_ADJ_CLOSE, COL_CLOSE_CAPS, COL_OPEN, COL_NOTE},
   numeric : BOOLEAN]

\* Column lists of up to n columns with no name twice
Schemas(n) ==
  {sch \in UNION {[1..k -> ColumnKinds] : k \in 0..n} :
     \A i, j \in 1..Len(sch) : sch[i].name = sch[j].name => i = j}

NUM_OPEN == [name |-> COL_OPEN, numeric |-> TRUE]

NUM_CLOSE == [name |-> COL_CLOSE, numeric |-> TRUE]

NUM_ADJ_CLOSE == [name |-> COL_ADJ_CLOSE, numeric |-> TRUE]

\* The schemas of the provider's usual answers: nothing at all, prices with
\* a Close column, prices with only an adjusted close.
ProviderSchemas == {<< >>, <<NUM_OPEN, NUM_CLOSE>>, <<NUM_OPEN, NUM_ADJ_CLOSE>>}

\* Close tables of one ticker for the gap fill
FillTables == TableSet({<<NUM_CLOSE>>}, MaxFillDate, Cells, Cells)

\* Tables to aggregate: only the Close column has missing cells
AggTables ==
  TableSet((ProviderSchemas \ {<< >>}) \cup {<<NUM_OPEN>>}, MaxAggDate,
           {NaN, "1.0"}, {"1.0"})

\* Tables to reconcile: only the Close column has missing cells
SaveTables ==
  TableSet(ProviderSchemas \ {<< >>}, MaxSaveDate, Cells, {"1.0"})

\* The provider's answers in whole runs
RunTables == TableSet(ProviderSchemas, MaxRunDate, {NaN, "1.0"}, {"1.0"})

(***************************************************************************)
(* Artifacts                                                               *)
(***************************************************************************)
\* A per-ticker file: kind "raw", "cleaned" or "plot"
TickerFile(kind, t) == [kind |-> kind, ticker |-> t]

\* A file of the whole run: "summary", "missing", "cleaned_close", "combined"
RunFile(kind) == [kind |-> kind, ticker |-> << >>]

NoFrame == [index |-> << >>, columns |-> << >>]

(***************************************************************************)
(* main, one action per step                                               *)
(***************************************************************************)
\* tickers, start, end = prompt_user()
Prompt ==
  /\ pc = "prompt"
  /\ LET r == prompt_user(env, inp)
     IN  /\ tickers' = r.tickers
         /\ start' = r.start
         /\ end' = r.end
         /\ stdinRead' = r.read
  /\ fetchIdx' = 1
  /\ pc' = "fetch"
  /\ UNCHANGED <<program, env, inp, data, close_series, close_df, cleaned, saved, saveIdx,
                 plotIdx, files, error, exitStatus>>

\* One iteration of fetch_data's loop in which yf.download returns df:
\* out[t] = df, then the raw CSV is written.
FetchReturns(df) ==
  /\ pc = "fetch"
  /\ fetchIdx <= Len(tickers)
  /\ data' = DictSet(data, tickers[fetchIdx], df)
  /\ files' = Append(files, TickerFile("raw", tickers[fetchIdx]))
  /\ fetchIdx' = fetchIdx + 1
  /\ UNCHANGED <<pc, program, env, inp, stdinRead, tickers, start, end, close_series,
                 close_df, cleaned, saved, saveIdx, plotIdx, error, exitStatus>>

\* One iteration of fetch_data's loop in which yf.download raises: nothing
\* catches it, in fetch_data or in main, and the interpreter exits with 1.
FetchRaises ==
  /\ pc = "fetch"
  /\ fetchIdx <= Len(tickers)
  /\ pc' = "crashed"
  /\ error' = "fetch"
  /\ exitStatus' = 1
  /\ UNCHANGED <<program, env, inp, stdinRead, tickers, start, end, fetchIdx, data,
                 close_series, close_df, cleaned, saved, saveIdx, plotIdx, files>>

\* fetch_data returns; main's "if not data": sys.exit(1) on an empty dict
CheckData ==
  /\ pc = "fetch"
  /\ fetchIdx > Len(tickers)
  /\ pc' = IF data = << >> THEN "exited" ELSE "eda_resolve"
  /\ exitStatus' = IF data = << >> THEN 1 ELSE exitStatus
  /\ UNCHANGED <<program, env, inp, stdinRead, tickers, start, end, fetchIdx, data,
                 close_series, close_df, cleaned, saved, saveIdx, plotIdx, files,
                 error>>

\* perform_eda up to close_df: the resolution loop and the aggregation
EdaResolve ==
  /\ pc = "eda_resolve"
  /\ close_series' = ResolveAll(data)
  /\ close_df' = Aggregate(ResolveAll(data))
  /\ pc' = "eda_summary"
  /\ UNCHANGED <<program, env, inp, stdinRead, tickers, start, end, fetchIdx, data,
                 cleaned, saved, saveIdx, plotIdx, files, error, exitStatus>>

\* EdaSummary that computes the statistics and does not write them
EdaSummaryNotWritten ==
  /\ pc = "eda_summary"
  /\ pc' = "eda_missing"
  /\ UNCHANGED <<program, env, inp, stdinRead, tickers, start, end, fetchIdx, data,
                 close_series, close_df, cleaned, saved, saveIdx, plotIdx, files,
                 error, exitStatus>>

\* summary = close_df.describe(); summary.to_csv(...)
EdaSummary ==
  /\ pc = "eda_summary"
  /\ files' = Append(files, RunFile("summary"))
  /\ pc' = "eda_missing"
  /\ UNCHANGED <<program, env, inp, stdinRead, tickers, start, end, fetchIdx, data,
                 close_series, close_df, cleaned, saved, saveIdx, plotIdx, error,
                 exitStatus>>

\* missing = close_df.isnull().sum(); missing.to_csv(...)
EdaMissing ==
  /\ pc = "eda_missing"
  /\ files' = Append(files, RunFile("missing"))
  /\ pc' = "eda_clean"
  /\ UNCHANGED <<program, env, inp, stdinRead, tickers, start, end, fetchIdx, data,
                 close_series, close_df, cleaned, saved, saveIdx, plotIdx, error,
                 exitStatus>>

\* cleaned = close_df.ffill().bfill(); cleaned.to_csv(...); return cleaned
EdaClean ==
  /\ pc = "eda_clean"
  /\ cleaned' = Clean(close_df)
  /\ files' = Append(files, RunFile("cleaned_close"))
  /\ saveIdx' = 1
  /\ pc' = "save"
  /\ UNCHANGED <<program, env, inp, stdinRead, tickers, start, end, fetchIdx, data,
                 close_series, close_df, saved, plotIdx, error, exitStatus>>

\* One iteration of save_cleaned_individuals' loop over original_data
save_cleaned_individuals ==
  /\ pc = "save"
  /\ saveIdx <= Len(data)
  /\ saved' = Append(saved, [k |-> data[saveIdx].k,
                             v |-> Reconcile(data[saveIdx].v, cleaned,
                                             data[saveIdx].k)])
  /\ files' = Append(files, TickerFile("cleaned", data[saveIdx].k))
  /\ saveIdx' = saveIdx + 1
  /\ plotIdx' = 1
  /\ pc' = IF saveIdx = Len(data) THEN "plot" ELSE "save"
  /\ UNCHANGED <<program, env, inp, stdinRead, tickers, start, end, fetchIdx, data,
                 close_series, close_df, cleaned, error, exitStatus>>

\* One iteration of plot_prices' loop over data: df["Close"] raises KeyError
\* on a table with no "Close" column, which nothing catches; otherwise the
\* ticker's plot is saved, also when the table has no rows.
PlotTicker ==
  /\ pc = "plot"
  /\ plotIdx <= Len(data)
  /\ IF HasColumn(data[plotIdx].v, COL_CLOSE)
       THEN /\ files' = Append(files, TickerFile("plot", data[plotIdx].k))
            /\ plotIdx' = plotIdx + 1
            /\ pc' = IF plotIdx = Len(data) THEN "combined" ELSE "plot"
            /\ UNCHANGED <<error, exitStatus>>
       ELSE /\ pc' = "crashed"
            /\ error' = "KeyError"
            /\ exitStatus' = 1
            /\ UNCHANGED <<files, plotIdx>>
  /\ UNCHANGED <<program, env, inp, stdinRead, tickers, start, end, fetchIdx, data,
                 close_series, close_df, cleaned, saved, saveIdx>>

\* The combined comparison plot of plot_prices
PlotCombined ==
  /\ pc = "combined"
  /\ files' = Append(files, RunFile("combined"))
  /\ pc' = "finish"
  /\ UNCHANGED <<program, env, inp, stdinRead, tickers, start, end, fetchIdx, data,
                 close_series, close_df, cleaned, saved, saveIdx, plotIdx, error,
                 exitStatus>>

\* main prints its last line and returns: exit status 0
Finish ==
  /\ pc = "finish"
  /\ pc' = "done"
  /\ exitStatus' = 0
  /\ UNCHANGED <<program, env, inp, stdinRead, tickers, start, end, fetchIdx, data,
                 close_series, close_df, cleaned, saved, saveIdx, plotIdx, files,
                 error>>

(***************************************************************************)
(* scripts/fetch_and_eda.py: main on its fixed tickers, one action per     *)
(* step.  all_data is data, cleaned_close is cleaned.                      *)
(***************************************************************************)
TICKERS ==
  << <<"A", "A", "P", "L">>, <<"T", "S", "L", "A">>, <<"M", "S", "F", "T">> >>

START_DATE == <<"2", "0", "2", "3", "-", "0", "1", "-", "0", "1">>

END_DATE == <<"2", "0", "2", "4", "-", "0", "1", "-", "3", "1">>

\* {t: all_data[t]["Close"] for t in TICKERS}, when every table has the
\* column
CloseColumns(d) ==
  [i \in 1..Len(TICKERS) |->
     LET df == (CHOOSE e \in Range(d) : e.k = TICKERS[i]).v
     IN  [k |-> TICKERS[i], v |-> ColumnSeries(df, FirstNamedClose(df))]]

\* pd.DataFrame(dict of Series): one column per key in key order, the rows
\* lined up by date on the common index, or on the sorted union of the
\* indexes when they differ
DataFrameOfSeries(cs) ==
  [index |-> ConcatIndex(cs),
   columns |-> [i \in 1..Len(cs) |->
                  [name |-> cs[i].k, numeric |-> cs[i].v.numeric,
                   vals |-> Reindex(cs[i].v, ConcatIndex(cs))]]]

\* One iteration of the fetch loop in which fetch_ticker returns df: the
\* raw CSV {t}.csv is written, then all_data[t] = df.
ScriptFetchReturns(df) ==
  /\ pc = "script_fetch"
  /\ fetchIdx <= Len(tickers)
  /\ files' = Append(files, TickerFile("csv", tickers[fetchIdx]))
  /\ data' = DictSet(data, tickers[fetchIdx], df)
  /\ fetchIdx' = fetchIdx + 1
  /\ pc' = IF fetchIdx = Len(tickers) THEN "script_frame" ELSE "script_fetch"
  /\ UNCHANGED <<program, env, inp, stdinRead, tickers, start, end,
                 close_series, close_df, cleaned, saved, saveIdx, plotIdx,
                 error, exitStatus>>

\* One iteration of the fetch loop in which yf.download raises in
\* fetch_ticker: nothing catches it and the interpreter exits with 1.
ScriptFetchRaises ==
  /\ pc = "script_fetch"
  /\ fetchIdx <= Len(tickers)
  /\ pc' = "crashed"
  /\ error' = "fetch"
  /\ exitStatus' = 1
  /\ UNCHANGED <<program, env, inp, stdinRead, tickers, start, end, fetchIdx,
                 data, close_series, close_df, cleaned, saved, saveIdx,
                 plotIdx, files>>

\* close_df = pd.DataFrame({t: all_data[t]["Close"] for t in TICKERS}):
\* KeyError, which nothing catches, when a table has no "Close" column
ScriptCloseFrame ==
  /\ pc = "script_frame"
  /\ IF \A i \in 1..Len(data) : HasColumn(data[i].v, COL_CLOSE)
       THEN /\ close_df' = DataFrameOfSeries(CloseColumns(data))
            /\ pc' = "script_summary"
            /\ UNCHANGED <<error, exitStatus>>
       ELSE /\ pc' = "crashed"
            /\ error' = "KeyError"
            /\ exitStatus' = 1
            /\ UNCHANGED close_df
  /\ UNCHANGED <<program, env, inp, stdinRead, tickers, start, end, fetchIdx,
                 data, close_series, cleaned, saved, saveIdx, plotIdx, files>>

\* summary_stats and missing_counts are computed and written, in this order
ScriptSummary ==
  /\ pc = "script_summary"
  /\ files' = files \o <<RunFile("summary"), RunFile("missing")>>
  /\ pc' = "script_clean"
  /\ UNCHANGED <<program, env, inp, stdinRead, tickers, start, end, fetchIdx,
                 data, close_series, close_df, cleaned, saved, saveIdx,
                 plotIdx, error, exitStatus>>

\* cleaned_close = close_df.ffill().bfill(); cleaned_close.to_csv(...)
ScriptClean ==
  /\ pc = "script_clean"
  /\ cleaned' = Clean(close_df)
  /\ files' = Append(files, RunFile("cleaned_close"))
  /\ plotIdx' = 1
  /\ pc' = "script_plot"
  /\ UNCHANGED <<program, env, inp, stdinRead, tickers, start, end, fetchIdx,
                 data, close_series, close_df, saved, saveIdx, error,
                 exitStatus>>

\* One iteration of the plot loop over TICKERS: all_data[t]["Close"] is
\* drawn and the ticker's plot saved, also when the table has no rows; a
\* table without the column would raise KeyError.
ScriptPlotTicker ==
  /\ pc = "script_plot"
  /\ plotIdx <= Len(tickers)
  /\ LET df == (CHOOSE e \in Range(data) : e.k = tickers[plotIdx]).v
     IN  IF HasColumn(df, COL_CLOSE)
           THEN /\ files' = Append(files, TickerFile("plot", tickers[plotIdx]))
                /\ plotIdx' = plotIdx + 1
                /\ pc' = IF plotIdx = Len(tickers)
                           THEN "script_combined" ELSE "script_plot"
                /\ UNCHANGED <<error, exitStatus>>
           ELSE /\ pc' = "crashed"
                /\ error' = "KeyError"
                /\ exitStatus' = 1
                /\ UNCHANGED <<files, plotIdx>>
  /\ UNCHANGED <<program, env, inp, stdinRead, tickers, start, end, fetchIdx,
                 data, close_series, close_df, cleaned, saved, saveIdx>>

\* The combined comparison plot of the cleaned columns
ScriptPlotCombined ==
  /\ pc = "script_combined"
  /\ files' = Append(files, RunFile("combined"))
  /\ pc' = "script_finish"
  /\ UNCHANGED <<program, env, inp, stdinRead, tickers, start, end, fetchIdx,
                 data, close_series, close_df, cleaned, saved, saveIdx,
                 plotIdx, error, exitStatus>>

\* main returns: exit status 0
ScriptFinish ==
  /\ pc = "script_finish"
  /\ pc' = "done"
  /\ exitStatus' = 0
  /\ UNCHANGED <<program, env, inp, stdinRead, tickers, start, end, fetchIdx,
                 data, close_series, close_df, cleaned, saved, saveIdx,
                 plotIdx, files, error>>

\* The script when its fetch loop has filled all_data with d.  It reads
\* neither the environment nor a line.
ScriptAt(stage, d) ==
  /\ program = "fetch_and_eda"
  /\ pc = stage
  /\ env = "None"
  /\ inp = << >>
  /\ stdinRead = FALSE
  /\ tickers = TICKERS
  /\ start = START_DATE
  /\ end = END_DATE
  /\ fetchIdx = Len(d) + 1
  /\ data = d
  /\ close_series = << >>
  /\ close_df = NoFrame
  /\ cleaned = NoFrame
  /\ saved = << >>
  /\ saveIdx = 1
  /\ plotIdx = 1
  /\ files = [i \in 1..Len(d) |-> TickerFile("csv", d[i].k)]
  /\ error = "none"
  /\ exitStatus = -1

\* The script is started
InitScript == ScriptAt("script_fetch", << >>)

(***************************************************************************)
(* A whole run of main                                                     *)
(***************************************************************************)
\* The input lines tried in whole runs: Enter, one ticker, two tickers, the
\* same ticker twice.
RunInputs == {<< >>, <<"a">>, <<"b", ",", "a">>, <<"a", ",", "a">>}

\* (With the flag set input() is never called: the line is left empty.)
InitMain ==
  /\ program = "stock_eda"
  /\ pc = "prompt"
  /\ env \in EnvValues
  /\ inp \in RunInputs
  /\ Truthy(env) => inp = << >>
  /\ stdinRead = FALSE
  /\ tickers = << >>
  /\ start = << >>
  /\ end = << >>
  /\ fetchIdx = 1
  /\ data = << >>
  /\ close_series = << >>
  /\ close_df = NoFrame
  /\ cleaned = NoFrame
  /\ saved = << >>
  /\ saveIdx = 1
  /\ plotIdx = 1
  /\ files = << >>
  /\ error = "none"
  /\ exitStatus = -1

Init == InitMain \/ InitScript

fetch_data == \E df \in RunTables : FetchReturns(df)

fetch_ticker == \E df \in RunTables : ScriptFetchReturns(df)

Next ==
  \/ Prompt
  \/ fetch_data
  \/ FetchRaises
  \/ CheckData
  \/ EdaResolve
  \/ EdaSummary
  \/ EdaMissing
  \/ EdaClean
  \/ save_cleaned_individuals
  \/ PlotTicker
  \/ PlotCombined
  \/ Finish
  \/ fetch_ticker
  \/ ScriptFetchRaises
  \/ ScriptCloseFrame
  \/ ScriptSummary
  \/ ScriptClean
  \/ ScriptPlotTicker
  \/ ScriptPlotCombined
  \/ ScriptFinish

Spec == Init /\ [][Next]_vars

(***************************************************************************)
(* Claims about a whole run (Spec)                                         *)
(***************************************************************************)
\* The run is one of stock_eda.py's main
InMain == program = "stock_eda"

RunEnded == pc \in {"done", "exited", "crashed"}

\* fetch_data has returned its dict to main
FetchReturned == pc \notin {"prompt", "fetch"} /\ error # "fetch"

Written(f) == \E i \in 1..Len(files) : files[i] = f

IsPrefix(p, q) == Len(p) <= Len(q) /\ SubSeq(q, 1, Len(p)) = p

\* C2: in a run of stock_eda.py's main, a fetch that raises for one ticker
\* does not abort the run, and every other requested ticker is still
\* downloaded and recorded.  (fetchIdx is the position of the ticker whose
\* download raised.)
C2_FetchFailureIsolated ==
  (InMain /\ error = "fetch") =>
    /\ pc # "crashed"
    /\ RunEnded =>
         \A i \in 1..Len(tickers) :
           i # fetchIdx => Written(TickerFile("raw", tickers[i]))

\* Every table fetch_data returned has no rows
AllFetchedEmpty == \A i \in 1..Len(data) : data[i].v.index = << >>

AggregatedKinds == {"summary", "missing", "cleaned_close", "cleaned", "plot", "combined"}

\* C3: when the fetch stage returns an empty table for every requested
\* ticker, stock_eda.py's main ends with a non-zero exit status and writes
\* none of the aggregated or cleaned artifacts; every other run that
\* completes ends with exit status zero.
C3_AllEmptyExitsNonZero ==
  InMain =>
    /\ (FetchReturned /\ AllFetchedEmpty) =>
         /\ \A i \in 1..Len(files) : files[i].kind \notin AggregatedKinds
         /\ RunEnded => exitStatus # 0
    /\ (pc = "done" /\ ~AllFetchedEmpty) => exitStatus = 0

\* A table the plot stage can draw: it has a "Close" column and rows
Plottable(df) == HasColumn(df, COL_CLOSE) /\ df.index # << >>

\* The plot stage comes after the cleaned closing prices are written
PlotStageReached == Written(RunFile("cleaned_close"))

\* C8: in either program, a ticker with no plottable data does not fail the
\* run in the plot stage: its plot is skipped, the plots of the other
\* tickers and the combined plot are written, and the run reaches its
\* normal end.
C8_PlotStageSkipsUnplottable ==
  /\ ~(PlotStageReached /\ error = "KeyError")
  /\ pc = "done" =>
       /\ Written(RunFile("combined"))
       /\ \A i \in 1..Len(data) :
            Plottable(data[i].v) <=> Written(TickerFile("plot", data[i].k))

RECURSIVE FirstOccurrences(_)
\* A list without its repeats: each element at its first place
FirstOccurrences(ts) ==
  IF ts = << >> THEN << >>
  ELSE LET before == FirstOccurrences(SubSeq(ts, 1, Len(ts) - 1))
           last   == ts[Len(ts)]
       IN  IF \E i \in 1..Len(before) : before[i] = last
             THEN before ELSE Append(before, last)

PerTicker(kind, ts) == [i \in 1..Len(ts) |-> TickerFile(kind, ts[i])]

EdaFiles == <<RunFile("summary"), RunFile("missing"), RunFile("cleaned_close")>>

\* The order of the artifacts when raw files go by rawOf and the cleaned
\* files and plots by restOf
ArtifactOrder(rawOf, restOf) ==
  PerTicker("raw", rawOf) \o EdaFiles \o PerTicker("cleaned", restOf)
    \o PerTicker("plot", restOf) \o <<RunFile("combined")>>

\* C10 as stated, for runs of stock_eda.py's main: the artifacts written so
\* far are a prefix of the one fixed
\* order raw CSV of each ticker, summary, missing values, cleaned closing
\* prices, cleaned CSV of each ticker, plot of each ticker, combined plot;
\* "each ticker" read as each entry of the requested list, or as each
\* distinct ticker.
C10_FixedOrderAsStated ==
  \/ ~InMain
  \/ IsPrefix(files, ArtifactOrder(tickers, tickers))
  \/ IsPrefix(files, ArtifactOrder(FirstOccurrences(tickers),
                                   FirstOccurrences(tickers)))

\* C10, amended, for runs of stock_eda.py's main: every write appends the next artifact of the order: a raw
\* CSV for each entry of the requested ticker list (a ticker listed twice
\* is written twice), then summary, missing values and cleaned closing
\* prices, then a cleaned CSV for each distinct ticker in the order of
\* first request, then a plot for each distinct ticker, then the combined
\* plot; nothing written is taken back, and a run that returns normally has
\* written them all.
C10_FixedOrder ==
  /\ [][\/ ~InMain
        \/ files' = files
        \/ /\ Len(files') = Len(files) + 1
           /\ SubSeq(files', 1, Len(files)) = files
           /\ IsPrefix(files', ArtifactOrder(tickers', FirstOccurrences(tickers')))
       ]_vars
  /\ []((InMain /\ pc = "done") =>
          files = ArtifactOrder(tickers, FirstOccurrences(tickers)))

\* A run on a list that names a ticker twice has returned normally.
C10_Witness ==
  /\ InMain
  /\ pc = "done"
  /\ Len(FirstOccurrences(tickers)) < Len(tickers)
  /\ Len(files) = Len(tickers) + 3 + 2 * Len(data) + 1

(***************************************************************************)
(* prompt_user on every input line (SpecPrompt)                            *)
(***************************************************************************)
\* A letter, the two separators, and two kinds of whitespace
InputAlphabet == {"a", "b", ",", ";", " ", "\f"}

InputLines == UNION {[1..n -> InputAlphabet] : n \in 0..MaxInputLen}

InitPrompt ==
  /\ program = "stock_eda"
  /\ pc = "prompt"
  /\ env \in EnvValues
  /\ inp \in InputLines
  /\ stdinRead = FALSE
  /\ tickers = << >>
  /\ start = << >>
  /\ end = << >>
  /\ fetchIdx = 1
  /\ data = << >>
  /\ close_series = << >>
  /\ close_df = NoFrame
  /\ cleaned = NoFrame
  /\ saved = << >>
  /\ saveIdx = 1
  /\ plotIdx = 1
  /\ files = << >>
  /\ error = "none"
  /\ exitStatus = -1

NextPrompt == Prompt

SpecPrompt == InitPrompt /\ [][NextPrompt]_vars

\* The positions of sep in s
SepPositions(s, sep) == {i \in 1..Len(s) : s[i] = sep}

\* The k-th field of s (k >= 1) when sep separates fields: what lies
\* between the (k-1)-th and the k-th occurrence of sep
Field(s, sep, k) ==
  LET pos  == SortedSeq(SepPositions(s, sep))
      from == IF k = 1 THEN 1 ELSE pos[k - 1] + 1
      to   == IF k > Len(pos) THEN Len(s) ELSE pos[k] - 1
  IN  SubSeq(s, from, to)

FieldCount(s, sep) == Cardinality(SepPositions(s, sep)) + 1

Fields(s, sep) == [k \in 1..FieldCount(s, sep) |-> Field(s, sep, k)]

Blank(s) == \A i \in 1..Len(s) : s[i] \in Whitespace

\* s from its first to its last character that is not whitespace
Trimmed(s) ==
  IF Blank(s) THEN << >>
  ELSE LET ink == {i \in 1..Len(s) : s[i] \notin Whitespace}
       IN  SubSeq(s, CHOOSE i \in ink : \A j \in ink : i <= j,
                     CHOOSE i \in ink : \A j \in ink : i >= j)

NotBlank(s) == ~Blank(s)

\* The tickers typed in a field: its comma-separated entries that are not
\* blank, trimmed and in capitals
TypedTickers(field) ==
  LET kept == SelectSeq(Fields(field, ","), NotBlank)
  IN  [i \in 1..Len(kept) |-> Upper(Trimmed(kept[i]))]

\* The k-th ';' field of the line, trimmed; empty when the line has none
TypedPart(line, k) ==
  IF k <= FieldCount(line, ";") THEN Trimmed(Field(line, ";", k)) ELSE << >>

OrDefault(typed, default) == IF typed = << >> THEN default ELSE typed

\* C9: prompt_user resolves the configuration by a fixed precedence: with
\* the MCP_AUTOMATE flag set (os.getenv gives a non-empty value) the
\* defaults, and input() is not called; otherwise input() is called, a blank
\* line gives the three defaults, and any other line is split on ';' into
\* tickers (comma-separated, trimmed, upper-cased), start and end, each
\* absent or empty part replaced by its own default.  The ticker list is
\* never empty.
C9_PromptPrecedence ==
  pc = "fetch" =>
    /\ stdinRead = ~Truthy(env)
    /\ Truthy(env) =>
         tickers = DEFAULT_TICKERS /\ start = DEFAULT_START /\ end = DEFAULT_END
    /\ (~Truthy(env) /\ Blank(inp)) =>
         tickers = DEFAULT_TICKERS /\ start = DEFAULT_START /\ end = DEFAULT_END
    /\ (~Truthy(env) /\ ~Blank(inp)) =>
         /\ tickers = OrDefault(TypedTickers(Field(inp, ";", 1)), DEFAULT_TICKERS)
         /\ start = OrDefault(TypedPart(inp, 2), DEFAULT_START)
         /\ end = OrDefault(TypedPart(inp, 3), DEFAULT_END)
    /\ tickers # << >>

\* prompt_user has read a line that names two tickers and a start date and
\* no end date.
C9_Witness ==
  /\ pc = "fetch"
  /\ stdinRead
  /\ Len(tickers) = 2
  /\ tickers # DEFAULT_TICKERS
  /\ start # DEFAULT_START
  /\ end = DEFAULT_END

(***************************************************************************)
(* perform_eda from the dict fetch_data returned                           *)
(***************************************************************************)
\* The tickers of the dicts tried, in request order
TICKER_POOL == << <<"B">>, <<"A">>, <<"C">>, <<"D">> >>

\* The dicts of n tickers whose tables are drawn from tables
DictsOver(n, tables) ==
  {[i \in 1..n |-> [k |-> TICKER_POOL[i], v |-> t[i]]] : t \in [1..n -> tables]}

RECURSIVE JoinComma(_)
\* ",".join(ts)
JoinComma(ts) ==
  IF ts = << >> THEN << >>
  ELSE IF Len(ts) = 1 THEN ts[1]
  ELSE ts[1] \o <<",">> \o JoinComma(Tail(ts))

\* main when fetch_data has returned d for the tickers typed at the prompt
AfterFetch(d) ==
  /\ program = "stock_eda"
  /\ pc = "eda_resolve"
  /\ env = "None"
  /\ inp = JoinComma(Keys(d))
  /\ stdinRead = TRUE
  /\ tickers = prompt_user(env, inp).tickers
  /\ tickers = Keys(d)
  /\ start = prompt_user(env, inp).start
  /\ end = prompt_user(env, inp).end
  /\ fetchIdx = Len(d) + 1
  /\ data = d
  /\ close_series = << >>
  /\ close_df = NoFrame
  /\ cleaned = NoFrame
  /\ saved = << >>
  /\ saveIdx = 1
  /\ plotIdx = 1
  /\ files = PerTicker("raw", Keys(d))
  /\ error = "none"
  /\ exitStatus = -1

(***************************************************************************)
(* The close-column resolution on one table (SpecResolver)                 *)
(***************************************************************************)
\* One ticker whose table has any column list of up to MaxCols columns
InitResolver ==
  \E sch \in Schemas(MaxCols), ix \in Indexes(MaxResolveDate) :
    \E cols \in ColumnSets(sch, Len(ix), {NaN, "1.0"}, {NaN, "1.0"}) :
      AfterFetch(<<[k |-> TICKER_POOL[1],
                    v |-> [index |-> ix, columns |-> cols]]>>)

NextResolver == EdaResolve

SpecResolver == InitResolver /\ [][NextResolver]_vars

\* The names of the tables tried that contain "close" in some case
CloseLikeNames == {COL_CLOSE, COL_ADJ_CLOSE, COL_CLOSE_CAPS}

\* Column i is the first column of df that is in the set of positions
FirstOf(i, positions) == i \in positions /\ \A j \in positions : i <= j

\* s is column i of df: its values, on the index of df
IsColumnOf(s, df, i) ==
  s.index = df.index /\ s.vals = df.columns[i].vals

\* C1: the close series of every table is picked in strict priority order:
\* the column named exactly "Close", unchanged and on the same index; else
\* the first column whose name contains "close" in any case; else the first
\* numeric column; else a series over the table's index, of its length, with
\* every entry missing.
C1_ResolutionPriority ==
  pc = "eda_summary" =>
    /\ Len(close_series) = Len(data)
    /\ \A n \in 1..Len(data) :
         LET df      == data[n].v
             s       == close_series[n].v
             cols    == 1..Len(df.columns)
             exact   == {i \in cols : df.columns[i].name = COL_CLOSE}
             like    == {i \in cols : df.columns[i].name \in CloseLikeNames}
             numeric == {i \in cols : df.columns[i].numeric}
         IN  /\ close_series[n].k = data[n].k
             /\ CASE exact # {} -> \E i \in exact : IsColumnOf(s, df, i)
                  [] exact = {} /\ like # {} ->
                       \E i \in like : FirstOf(i, like) /\ IsColumnOf(s, df, i)
                  [] exact = {} /\ like = {} /\ numeric # {} ->
                       \E i \in numeric :
                         FirstOf(i, numeric) /\ IsColumnOf(s, df, i)
                  [] OTHER ->
                       /\ s.index = df.index
                       /\ Len(s.vals) = Len(df.index)
                       /\ \A r \in 1..Len(s.vals) : s.vals[r] = NaN

\* The resolution took, on a table with rows, a close-like second column
\* over a numeric first column that holds other values.
C1_Witness ==
  /\ pc = "eda_summary"
  /\ Len(data[1].v.columns) = 2
  /\ data[1].v.index # << >>
  /\ data[1].v.columns[1].numeric
  /\ data[1].v.columns[1].name = COL_OPEN
  /\ data[1].v.columns[2].name = COL_ADJ_CLOSE
  /\ data[1].v.columns[1].vals # data[1].v.columns[2].vals
  /\ close_series[1].v.vals = data[1].v.columns[2].vals

(***************************************************************************)
(* The gap fill of both programs on close tables (SpecFill)                *)
(***************************************************************************)
\* Close tables of the script's later tickers
ScriptFillTables ==
  TableSet({<<NUM_CLOSE>>}, MaxRunDate, {NaN, "1.0"}, {NaN, "1.0"})

\* all_data of the script: any close table for the first ticker
ScriptFillDicts ==
  {<<[k |-> TICKERS[1], v |-> t1], [k |-> TICKERS[2], v |-> t2],
     [k |-> TICKERS[3], v |-> t3]>> :
     t1 \in FillTables, t2 \in ScriptFillTables, t3 \in ScriptFillTables}

InitFill ==
  \/ \E n \in {1, 2} : \E d \in DictsOver(n, FillTables) : AfterFetch(d)
  \/ \E d \in ScriptFillDicts : ScriptAt("script_frame", d)

NextEda ==
  \/ EdaResolve
  \/ EdaSummary
  \/ EdaMissing
  \/ EdaClean

NextFill ==
  \/ NextEda
  \/ ScriptCloseFrame
  \/ ScriptSummary
  \/ ScriptClean

SpecFill == InitFill /\ [][NextFill]_vars

\* The rows of a column that hold a value
Known(vals) == {i \in 1..Len(vals) : vals[i] # NaN}

Max(S) == CHOOSE x \in S : \A y \in S : x >= y

Min(S) == CHOOSE x \in S : \A y \in S : x <= y

\* C4: after the gap fill of either program every column that had a value has no missing
\* cell, and every column that had none is still entirely missing; each
\* cell holds the value of the latest row at or before it that had one in
\* its own column, or, before the column's first value, that first value.
C4_GapFill ==
  pc \in {"save", "script_plot"} =>
    /\ cleaned.index = close_df.index
    /\ ColumnNames(cleaned) = ColumnNames(close_df)
    /\ \A c \in 1..Len(close_df.columns) :
         LET before == close_df.columns[c].vals
             after  == cleaned.columns[c].vals
         IN  /\ Len(after) = Len(before)
             /\ \A r \in 1..Len(before) :
                  LET upTo == {j \in Known(before) : j <= r}
                  IN  after[r] =
                        IF Known(before) = {} THEN NaN
                        ELSE IF upTo # {} THEN before[Max(upTo)]
                        ELSE before[Min(Known(before))]

\* The fill ran on two columns, one that starts and ends with a gap around
\* its only value, one with no value at all.
C4_Witness ==
  /\ pc = "save"
  /\ Len(close_df.columns) = 2
  /\ close_df.columns[1].vals = <<NaN, "2.0", NaN>>
  /\ cleaned.columns[1].vals = <<"2.0", "2.0", "2.0">>
  /\ close_df.columns[2].vals = <<NaN, NaN, NaN>>
  /\ cleaned.columns[2].vals = <<NaN, NaN, NaN>>

\* C5: the gap fill is idempotent: forward-fill-then-backward-fill of the
\* cleaned table is the cleaned table.
C5_GapFillIdempotent == pc = "save" => Clean(cleaned) = cleaned

\* The fill changed a table with a two-row gap after a value.
C5_Witness ==
  /\ pc = "save"
  /\ close_df.columns[1].vals = <<"1.0", NaN, NaN>>
  /\ cleaned # close_df
  /\ Clean(cleaned) = cleaned

(***************************************************************************)
(* Aggregation of several tickers (SpecAggregate)                          *)
(***************************************************************************)
InitAggregate ==
  \E n \in 1..MaxTickers : \E d \in DictsOver(n, AggTables) : AfterFetch(d)

SpecAggregate == InitAggregate /\ [][NextEda]_vars

Ascending(ix) == \A i, j \in 1..Len(ix) : i < j => ix[i] < ix[j]

\* C6: the aggregated table has exactly the union of the input dates as its
\* rows, one column per ticker in ticker order, and the cell of a date and
\* a ticker is the ticker's value for that date, missing exactly when the
\* ticker's series has no value for it; a single series becomes a
\* one-column table named after the ticker with the series' values.
C6_Aggregation ==
  pc = "eda_summary" =>
    /\ ColumnNames(close_df) = Keys(close_series)
    /\ Keys(close_series) = tickers
    /\ Ascending(close_df.index)
    /\ Range(close_df.index) =
         UNION {Range(close_series[n].v.index) : n \in 1..Len(close_series)}
    /\ \A n \in 1..Len(close_series) :
         LET s == close_series[n].v
         IN  /\ Len(close_df.columns[n].vals) = Len(close_df.index)
             /\ \A r \in 1..Len(close_df.index) :
                  LET at == {q \in 1..Len(s.index) : s.index[q] = close_df.index[r]}
                  IN  IF at = {} THEN close_df.columns[n].vals[r] = NaN
                      ELSE \A q \in at : close_df.columns[n].vals[r] = s.vals[q]
    /\ Len(close_series) = 1 =>
         /\ close_df.index = close_series[1].v.index
         /\ close_df.columns[1].vals = close_series[1].v.vals

\* Two series were aggregated, the second with a date the first lacks and
\* a value on it.
C6_Witness ==
  /\ pc = "eda_summary"
  /\ Len(close_series) = 2
  /\ close_series[1].v.index = <<2>>
  /\ close_series[2].v.index = <<1, 2>>
  /\ close_series[2].v.vals = <<"1.0", NaN>>
  /\ close_df.index = <<1, 2>>
  /\ close_df.columns[1].vals[1] = NaN

(***************************************************************************)
(* perform_eda and save_cleaned_individuals on one and two tickers         *)
(* (SpecSave)                                                              *)
(***************************************************************************)
InitSave ==
  \E n \in {1, 2} : \E d \in DictsOver(n, SaveTables) : AfterFetch(d)

NextSave ==
  \/ NextEda
  \/ save_cleaned_individuals

SpecSave == InitSave /\ [][NextSave]_vars

\* C7, on the tables saved so far: the reconciled table has the original's
\* row index and columns, every column but "Close" is the original's, the
\* "Close" value of a date is the cleaned table's value for the ticker at
\* that date, and a table without "Close" gets none.
Reconciled ==
  /\ Len(saved) = saveIdx - 1
  /\ \A n \in 1..Len(saved) :
       LET orig == data[n].v
           new  == saved[n].v
           col  == CleanedColumn(cleaned, data[n].k)
       IN  /\ saved[n].k = data[n].k
           /\ new.index = orig.index
           /\ ColumnNames(new) = ColumnNames(orig)
           /\ \A c \in 1..Len(orig.columns) :
                IF orig.columns[c].name = COL_CLOSE
                  THEN \A r \in 1..Len(orig.index) :
                         \E q \in 1..Len(cleaned.index) :
                           /\ cleaned.index[q] = orig.index[r]
                           /\ new.columns[c].vals[r] = col.vals[q]
                  ELSE new.columns[c] = orig.columns[c]

\* C7: save_cleaned_individuals changes nothing but the close column, by
\* date, invents no column, and leaves the original tables as they were.
C7_ReconcileFrame ==
  /\ [](pc \in {"save", "plot"} => Reconciled)
  /\ [][pc = "save" => data' = data]_vars
====
